---- MODULE Spec2Model ----
(***************************************************************************)
(* Model of launch-template-version-update.py: the Template Updater        *)
(* (create_launch_template_version), the Template Locator                  *)
(* (get_launch_template_id) and the Image Resolver                         *)
(* (list_amis_with_tag_filter), each run against a provider (EC2 / Auto    *)
(* Scaling) whose calls can succeed or raise ClientError / BotoCoreError,  *)
(* and the driver (__main__) that runs locator and resolver per group.     *)
(* Spec calls each component on its own; SpecDriver runs the driver.       *)
(***************************************************************************)
EXTENDS Integers, Sequences, FiniteSets, TLC

VARIABLES
    \* ---- provider state: the one launch template the updater works on
    versions,          \* Seq of settings bundles; versions[n] is version n
    defaultVersion,    \* the template's default pointer
    \* ---- create_launch_template_version (updater) invocation
    pc,                \* position in the updater
    ami_id,            \* parameter: candidate image id
    current_version,   \* local, line 28
    current_settings,  \* local, line 29/39
    new_version_id,    \* local, line 49
    result,            \* what the caller gets: a return value or an exception
    output,            \* lines printed by this invocation
    calls,             \* provider calls issued by this invocation
    versions0,         \* template versions when the invocation started
    default0,          \* default pointer when the invocation started
    last,              \* summary of the previous (returned) invocation
    \* ---- get_launch_template_id (locator) invocation
    lpc, asg_name, groups, launch_template_id, l_result, l_output,
    \* ---- list_amis_with_tag_filter (resolver) invocation
    rpc, tags, catalog, sorted_amis, latest_ami_id, ami_name, r_result, r_output,
    \* ---- __main__ (driver) run
    dpc,                   \* position in the driver
    amis,                  \* yaml_data['ASG_NAMES']: the configured groups, in order
    idx,                   \* index of the group the for loop is at
    directory,             \* provider: group name -> describe_auto_scaling_groups response
    templates,             \* provider: template id -> versions and default pointer
    templates0,            \* the templates when the run started
    d_launch_template_id,  \* main's launch_template_id (line 161)
    d_ami_id,              \* main's ami_id (line 162)
    d_output,              \* the id pairs printed at line 163
    d_provider_error       \* some provider call of this run raised

uvars == <<versions, defaultVersion, pc, ami_id, current_version,
           current_settings, new_version_id, result, output, calls,
           versions0, default0, last>>
lvars == <<lpc, asg_name, groups, launch_template_id, l_result, l_output>>
rvars == <<rpc, tags, catalog, sorted_amis, latest_ami_id, ami_name,
           r_result, r_output>>
dvars == <<dpc, amis, idx, directory, templates, templates0,
           d_launch_template_id, d_ami_id, d_output, d_provider_error>>
vars == <<uvars, lvars, rvars, dvars>>

----------------------------------------------------------------------------
(* Bounds *)
MaxVersions == 3       \* versions a template may reach
InitVersions == 2      \* versions a template may start with
MaxGroups == 2         \* group records in one describe_auto_scaling_groups response
MaxImages == 2         \* images in the catalog
MaxConfigured == 2     \* groups in the configuration

(* Small value sets *)
AmiIds == {"ami-1", "ami-2"}
InstanceTypes == {"t3.micro", "t3.large"}
ErrorKinds == {"ClientError", "BotoCoreError"}     \* line 60: the caught kinds
ErrMessages == {"AccessDenied", "RequestLimitExceeded"}
None == "None"
Unbound == "<unbound>"

Range(s) == {s[i] : i \in DOMAIN s}

(* A settings bundle (LaunchTemplateData): ImageId plus optional fields. *)
SettingsSet ==
    [{"ImageId"} -> AmiIds]
    \cup {f \in [{"ImageId", "InstanceType"} -> AmiIds \cup InstanceTypes] :
            f["ImageId"] \in AmiIds /\ f["InstanceType"] \in InstanceTypes}

(* lines 60-62 (and 92-94, 135-137): the except clause.  ClientError has   *)
(* e.response; BotoCoreError has no such attribute, so line 62 raises      *)
(* AttributeError out of the handler.                                      *)
HandlerOutput(out, header, kind, msg) ==
    IF kind = "ClientError" THEN out \o <<header, msg>> ELSE Append(out, header)
HandlerResult(kind) == IF kind = "ClientError" THEN None ELSE "AttributeError"
HandlerPc(kind) == IF kind = "ClientError" THEN "failed" ELSE "raised"


(* Strings that are matched character by character are tuples of characters. *)
TagKeys == {"env", "Name"}
TagValues ==
    [env |-> {<<"q","a","2">>, <<"Q","A">>, <<"q","?">>}, Name |-> {<<"w","e","b">>}]
ConstraintValues ==
    [env |-> {<<"q","a">>, <<"q","?">>}, Name |-> {<<"w","e">>}]
CreationDates == 1..2          \* fixed-width timestamps, ordered as their strings
ImageIdList == <<"ami-1", "ami-2", "ami-3", "ami-4">>
ImageIds == Range(ImageIdList)
TemplateIds == {"lt-1", "lt-2"}
TemplateNames == {"web-lt", "api-lt"}
AsgNames == {"asg-web", "asg-api"}

(* tag key -> value, for any subset of the keys *)
TagMaps(values) ==
    UNION {{f \in [D -> UNION {values[k] : k \in D}] : \A k \in D : f[k] \in values[k]} :
             D \in SUBSET TagKeys}

(* Image catalogs: the image at position i carries the i-th image id. *)
Catalogs ==
    UNION {{c \in [1..n -> [ImageId : ImageIds, CreationDate : CreationDates,
                            Tags : TagMaps(TagValues)]] :
              \A i \in 1..n : c[i].ImageId = ImageIdList[i]} : n \in 0..MaxImages}

(* One record of describe_auto_scaling_groups: a group with a launch       *)
(* template, or one without (a launch configuration instead).              *)
GroupRecords ==
    {[LaunchTemplate |-> [LaunchTemplateId |-> i, LaunchTemplateName |-> n]] :
        i \in TemplateIds, n \in TemplateNames}
    \cup {[LaunchConfigurationName |-> "lc-1"]}

GroupResponses == UNION {[1..n -> GroupRecords] : n \in 0..MaxGroups}

----------------------------------------------------------------------------
(* Image Resolver: list_amis_with_tag_filter *)

MsgNoAmis == "No AMIs found with the specified tag filters."
MsgLatest == "Latest AMI ID"
MsgErrAmi == "Error retrieving the latest AMI ID for ASG:"

(* Provider: a filter value matches a tag value as a pattern in which '*'  *)
(* stands for any run of characters and '?' for any one character.         *)
RECURSIVE GlobMatch(_, _)
GlobMatch(p, s) ==
    IF p = <<>> THEN s = <<>>
    ELSE IF Head(p) = "*"
         THEN GlobMatch(Tail(p), s) \/ (s # <<>> /\ GlobMatch(p, Tail(s)))
    ELSE IF Head(p) = "?"
         THEN s # <<>> /\ GlobMatch(Tail(p), Tail(s))
    ELSE s # <<>> /\ Head(s) = Head(p) /\ GlobMatch(Tail(p), Tail(s))

(* line 113: one filter per tag key, Values = ['*<value>*'] *)
FilterValue(tag_value_contains) == <<"*">> \o tag_value_contains \o <<"*">>
BuildFilters(t) == [k \in DOMAIN t |-> FilterValue(t[k])]

(* Provider: describe_images(Filters) returns, in catalog order, the       *)
(* images that pass every filter.                                          *)
PassesFilters(img, filters) ==
    \A k \in DOMAIN filters :
        k \in DOMAIN img.Tags /\ GlobMatch(filters[k], img.Tags[k])

DescribeImages(cat, filters) ==
    LET Pass(img) == PassesFilters(img, filters) IN SelectSeq(cat, Pass)

(* line 119: sorted(..., key=CreationDate, reverse=True); the sort is      *)
(* stable: images with equal keys keep their order.                        *)
(* Variant: an image is placed before the images with an equal key *)
InsertDesc_Unstable(sorted, x) ==
    LET k == Cardinality({i \in DOMAIN sorted :
                            sorted[i].CreationDate > x.CreationDate})
    IN SubSeq(sorted, 1, k) \o <<x>> \o SubSeq(sorted, k + 1, Len(sorted))
InsertDesc(sorted, x) ==
    LET k == Cardinality({i \in DOMAIN sorted :
                            sorted[i].CreationDate >= x.CreationDate})
    IN SubSeq(sorted, 1, k) \o <<x>> \o SubSeq(sorted, k + 1, Len(sorted))

RECURSIVE SortByCreationDateDesc(_)
SortByCreationDateDesc(images) ==
    IF images = <<>> THEN <<>>
    ELSE InsertDesc(SortByCreationDateDesc(SubSeq(images, 1, Len(images) - 1)),
                    images[Len(images)])

(* lines 124-128: the value of the image's Name tag, '' when it has none *)
DisplayName(img) == IF "Name" \in DOMAIN img.Tags THEN img.Tags["Name"] ELSE <<>>

(* lines 110-133: describe_images succeeds *)
ListAmisOk ==
    /\ rpc = "start"
    /\ LET sorted == SortByCreationDateDesc(DescribeImages(catalog, BuildFilters(tags)))
       IN /\ sorted_amis' = sorted
          /\ IF sorted # <<>>
             THEN /\ latest_ami_id' = sorted[1].ImageId
                  /\ ami_name' = DisplayName(sorted[1])
                  /\ r_output' = Append(r_output,
                                        <<MsgLatest, sorted[1].ImageId, DisplayName(sorted[1])>>)
                  /\ r_result' = sorted[1].ImageId
                  /\ rpc' = "returned"
             ELSE \* line 133 reads ami_id, never assigned: UnboundLocalError
                  /\ latest_ami_id' = Unbound
                  /\ ami_name' = Unbound
                  /\ r_output' = Append(r_output, MsgNoAmis)
                  /\ r_result' = "UnboundLocalError"
                  /\ rpc' = "raised"
    /\ UNCHANGED <<tags, catalog>>

(* line 116 raises; lines 135-137 *)
ListAmisFail ==
    /\ rpc = "start"
    /\ \E kind \in ErrorKinds, msg \in ErrMessages :
         /\ r_output' = HandlerOutput(r_output, MsgErrAmi, kind, msg)
         /\ r_result' = HandlerResult(kind)
         /\ rpc' = HandlerPc(kind)
    /\ UNCHANGED <<tags, catalog, sorted_amis, latest_ami_id, ami_name>>

----------------------------------------------------------------------------
(* Template Locator: get_launch_template_id *)

MsgErrLocate == "Error retrieving the launch template ID:"

(* lines 84-90: the first record decides; the loop body does not run on an *)
(* empty response, and a record without LaunchTemplate raises KeyError.    *)
LocateResult(response) ==
    IF response = <<>> THEN "UnboundLocalError"
    ELSE IF "LaunchTemplate" \notin DOMAIN response[1] THEN "KeyError"
    ELSE response[1].LaunchTemplate.LaunchTemplateId

(* lines 78-90: describe_auto_scaling_groups succeeds *)
LocateOk ==
    /\ lpc = "start"
    /\ l_result' = LocateResult(groups)
    /\ launch_template_id' =
         IF LocateResult(groups) \in TemplateIds THEN LocateResult(groups) ELSE Unbound
    /\ lpc' = IF LocateResult(groups) \in TemplateIds THEN "returned" ELSE "raised"
    /\ UNCHANGED <<asg_name, groups, l_output>>

(* line 82 raises; lines 92-94 *)
LocateFail ==
    /\ lpc = "start"
    /\ \E kind \in ErrorKinds, msg \in ErrMessages :
         /\ l_output' = HandlerOutput(l_output, MsgErrLocate, kind, msg)
         /\ l_result' = HandlerResult(kind)
         /\ lpc' = HandlerPc(kind)
    /\ UNCHANGED <<asg_name, groups, launch_template_id>>

----------------------------------------------------------------------------
(* Template Updater: create_launch_template_version *)
(* Printed lines *)
MsgAlready == "A default Launch Template already exists for the same AMI ID. No new launch template version created."
MsgCreating == "Creating a new launch template version"
MsgSetting == "Setting the new version as the default"
MsgCreated == "New launch template version created"
MsgErrCreate == "Error in creating launch template version:"

(* Provider: describe_launch_template_versions(LaunchTemplateId) returns    *)
(* every version of the template; the order of the list is the provider's. *)
VersionRecord(vs, d, n) ==
    [VersionNumber |-> n, LaunchTemplateData |-> vs[n], DefaultVersion |-> (n = d)]

DescribeResponses(vs, d) ==
    {resp \in [1..Len(vs) -> {VersionRecord(vs, d, n) : n \in 1..Len(vs)}] :
        \A i, j \in 1..Len(vs) : i # j => resp[i] # resp[j]}

(* Provider: create_launch_template_version(data, source): the new version *)
(* is the source version overlaid with the supplied data.                  *)
Overlay(base, data) ==
    [k \in DOMAIN base \cup DOMAIN data |->
        IF k \in DOMAIN data THEN data[k] ELSE base[k]]

(* Variant: the source version is edited in place instead of a new one appended *)
ProviderCreate_InPlace(vs, data, source) ==
    [vs EXCEPT ![source] = Overlay(vs[source], data)]
ProviderCreate(vs, data, source) == Append(vs, Overlay(vs[source], data))

(* line 28: response['LaunchTemplateVersions'][0] *)
SelectCurrent(resp) == resp[1]

(* Variant: the comparison never finds the images equal *)
SameImage_Never(current_ami_id, candidate) == FALSE
(* line 33: current_ami_id == ami_id *)
SameImage(current_ami_id, candidate) == current_ami_id = candidate

(* line 39: current_settings['ImageId'] = ami_id *)
NewSettings(settings, candidate) == [settings EXCEPT !["ImageId"] = candidate]

(* line 45: SourceVersion=str(current_version['VersionNumber']) *)
SourceVersionArg(cv) == cv.VersionNumber

(* Variant: promotes the version that was read instead of the created one *)
DefaultVersionArg_Source(nv, cv) == cv.VersionNumber
(* Variant: promotes the number after the created one *)
DefaultVersionArg_Next(nv, cv) == nv + 1
(* line 55: DefaultVersion=str(new_version_id) *)
DefaultVersionArg(nv, cv) == nv

(* Variant: no progress line before the promotion *)
PrintSetting_Silent(out) == out
(* line 51: progress line printed between create and modify *)
PrintSetting(out) == Append(out, MsgSetting)

Terminal == {"no_change", "done", "failed", "raised"}
NoLast == [outcome |-> "none", ami |-> None, result |-> None, output |-> <<>>,
           created |-> FALSE]

Call(op, res) == [op |-> op, res |-> res]
Created == \E i \in DOMAIN calls : calls[i] = Call("create", "ok")
Fetched == \E i \in DOMAIN calls : calls[i] = Call("describe", "ok")

----------------------------------------------------------------------------
(* Updater actions *)

(* Entry of create_launch_template_version(template_id, ami_id) *)
Invoke ==
    /\ pc = "idle"
    /\ Len(versions) < MaxVersions
    /\ \E a \in AmiIds : ami_id' = a
    /\ pc' = "fetch"
    /\ current_version' = None /\ current_settings' = None
    /\ new_version_id' = 0
    /\ result' = None /\ output' = <<>> /\ calls' = <<>>
    /\ versions0' = versions /\ default0' = defaultVersion
    /\ UNCHANGED <<versions, defaultVersion, last>>

(* lines 25-39: describe succeeds, then the comparison *)
FetchOk ==
    /\ pc = "fetch"
    /\ \E resp \in DescribeResponses(versions, defaultVersion) :
         LET cv == SelectCurrent(resp)
             cs == cv.LaunchTemplateData
         IN /\ IF SameImage(cs["ImageId"], ami_id)
               THEN /\ current_version' = cv
                    /\ current_settings' = cs
                    /\ output' = Append(output, MsgAlready)
                    /\ pc' = "no_change"
               ELSE \* current_settings is the dict inside current_version:
                    \* line 39 changes the fetched copy of the version too
                    /\ current_version' =
                         [cv EXCEPT !.LaunchTemplateData = NewSettings(cs, ami_id)]
                    /\ current_settings' = NewSettings(cs, ami_id)
                    /\ output' = Append(output, MsgCreating)
                    /\ pc' = "create"
    /\ calls' = Append(calls, Call("describe", "ok"))
    /\ UNCHANGED <<versions, defaultVersion, ami_id, new_version_id, result,
                   versions0, default0, last>>

(* line 25 raises; lines 60-62 *)
FetchFail ==
    /\ pc = "fetch"
    /\ \E kind \in ErrorKinds, msg \in ErrMessages :
         /\ calls' = Append(calls, Call("describe", kind))
         /\ output' = HandlerOutput(output, MsgErrCreate, kind, msg)
         /\ result' = HandlerResult(kind)
         /\ pc' = HandlerPc(kind)
    /\ UNCHANGED <<versions, defaultVersion, ami_id, current_version,
                   current_settings, new_version_id, versions0, default0, last>>

(* lines 42-51: create succeeds *)
CreateOk ==
    /\ pc = "create"
    /\ versions' = ProviderCreate(versions, current_settings,
                                  SourceVersionArg(current_version))
    /\ new_version_id' = Len(versions')
    /\ calls' = Append(calls, Call("create", "ok"))
    /\ output' = PrintSetting(output)
    /\ pc' = "promote"
    /\ UNCHANGED <<defaultVersion, ami_id, current_version, current_settings,
                   result, versions0, default0, last>>

(* Variant: the create call fails after the version was stored *)
CreateFail_AfterWrite ==
    /\ pc = "create"
    /\ \E kind \in ErrorKinds, msg \in ErrMessages :
         /\ calls' = Append(calls, Call("create", kind))
         /\ output' = HandlerOutput(output, MsgErrCreate, kind, msg)
         /\ result' = HandlerResult(kind)
         /\ pc' = HandlerPc(kind)
    /\ versions' = Append(versions, current_settings)
    /\ UNCHANGED <<defaultVersion, ami_id, current_version,
                   current_settings, new_version_id, versions0, default0, last>>

(* line 42 raises; lines 60-62 *)
CreateFail ==
    /\ pc = "create"
    /\ \E kind \in ErrorKinds, msg \in ErrMessages :
         /\ calls' = Append(calls, Call("create", kind))
         /\ output' = HandlerOutput(output, MsgErrCreate, kind, msg)
         /\ result' = HandlerResult(kind)
         /\ pc' = HandlerPc(kind)
    /\ UNCHANGED <<versions, defaultVersion, ami_id, current_version,
                   current_settings, new_version_id, versions0, default0, last>>

(* lines 53-58: modify_launch_template succeeds *)
PromoteOk ==
    /\ pc = "promote"
    /\ defaultVersion' = DefaultVersionArg(new_version_id, current_version)
    /\ calls' = Append(calls, Call("modify", "ok"))
    /\ output' = Append(output, MsgCreated)
    /\ pc' = "done"
    /\ UNCHANGED <<versions, ami_id, current_version, current_settings,
                   new_version_id, result, versions0, default0, last>>

(* Variant: a handler that retries the promotion once after a provider error *)
PromoteFail_Retry ==
    /\ pc = "promote"
    /\ \E kind \in ErrorKinds, msg \in ErrMessages :
         /\ calls' = calls \o <<Call("modify", kind), Call("modify", "ok")>>
         /\ output' = HandlerOutput(output, MsgErrCreate, kind, msg)
         /\ result' = HandlerResult(kind)
         /\ pc' = HandlerPc(kind)
    /\ defaultVersion' = new_version_id
    /\ UNCHANGED <<versions, ami_id, current_version, current_settings,
                   new_version_id, versions0, default0, last>>

(* line 53 raises; lines 60-62 *)
PromoteFail ==
    /\ pc = "promote"
    /\ \E kind \in ErrorKinds, msg \in ErrMessages :
         /\ calls' = Append(calls, Call("modify", kind))
         /\ output' = HandlerOutput(output, MsgErrCreate, kind, msg)
         /\ result' = HandlerResult(kind)
         /\ pc' = HandlerPc(kind)
    /\ UNCHANGED <<versions, defaultVersion, ami_id, current_version,
                   current_settings, new_version_id, versions0, default0, last>>

(* The invocation is over (return at 35, fall off at 58/62, or the         *)
(* AttributeError of line 62 has left the function).                       *)
Return ==
    /\ pc \in Terminal
    /\ last' = [outcome |-> pc, ami |-> ami_id, result |-> result,
                output |-> output, created |-> Created]
    /\ pc' = "idle"
    /\ UNCHANGED <<versions, defaultVersion, ami_id, current_version,
                   current_settings, new_version_id, result, output, calls,
                   versions0, default0>>

----------------------------------------------------------------------------
LocatorIdle ==
    /\ lpc = "idle" /\ asg_name = None /\ groups = <<>>
    /\ launch_template_id = Unbound /\ l_result = None /\ l_output = <<>>

ResolverIdle ==
    /\ rpc = "idle" /\ tags = <<>> /\ catalog = <<>> /\ sorted_amis = <<>>
    /\ latest_ami_id = Unbound /\ ami_name = Unbound
    /\ r_result = None /\ r_output = <<>>

DriverIdle ==
    /\ dpc = "off" /\ amis = <<>> /\ idx = 0
    /\ directory = <<>> /\ templates = <<>> /\ templates0 = <<>>
    /\ d_launch_template_id = Unbound /\ d_ami_id = Unbound
    /\ d_output = <<>> /\ d_provider_error = FALSE

(* A component that is not the one being called: it never acts. *)
UpdaterIdle ==
    /\ versions = <<[ImageId |-> "ami-1"]>> /\ defaultVersion = 1
    /\ pc = "off" /\ ami_id = None
    /\ current_version = None /\ current_settings = None
    /\ new_version_id = 0 /\ result = None /\ output = <<>> /\ calls = <<>>
    /\ versions0 = versions /\ default0 = defaultVersion
    /\ last = NoLast

(* The updater is called on a template with one or more versions, any one  *)
(* of them the default.                                                    *)
InitUpdater ==
    /\ \E n \in 1..InitVersions : versions \in [1..n -> SettingsSet]
    /\ defaultVersion \in 1..Len(versions)
    /\ pc = "idle" /\ ami_id = None
    /\ current_version = None /\ current_settings = None
    /\ new_version_id = 0 /\ result = None /\ output = <<>> /\ calls = <<>>
    /\ versions0 = versions /\ default0 = defaultVersion
    /\ last = NoLast
    /\ LocatorIdle /\ ResolverIdle /\ DriverIdle

(* The locator is called with a group name; the provider will answer with  *)
(* any list of group records.                                              *)
InitLocator ==
    /\ lpc = "start"
    /\ asg_name \in AsgNames
    /\ groups \in GroupResponses
    /\ launch_template_id = Unbound /\ l_result = None /\ l_output = <<>>
    /\ UpdaterIdle /\ ResolverIdle /\ DriverIdle

(* The resolver is called with a constraint mapping against any catalog. *)
InitResolver ==
    /\ rpc = "start"
    /\ tags \in TagMaps(ConstraintValues)
    /\ catalog \in Catalogs
    /\ sorted_amis = <<>> /\ latest_ami_id = Unbound /\ ami_name = Unbound
    /\ r_result = None /\ r_output = <<>>
    /\ UpdaterIdle /\ LocatorIdle /\ DriverIdle

(* Each component is independently callable. *)
Init == InitUpdater \/ InitLocator \/ InitResolver

Next ==
    \/ (Invoke /\ UNCHANGED <<lvars, rvars, dvars>>)
    \/ (FetchOk /\ UNCHANGED <<lvars, rvars, dvars>>)
    \/ (FetchFail /\ UNCHANGED <<lvars, rvars, dvars>>)
    \/ (CreateOk /\ UNCHANGED <<lvars, rvars, dvars>>)
    \/ (CreateFail /\ UNCHANGED <<lvars, rvars, dvars>>)
    \/ (PromoteOk /\ UNCHANGED <<lvars, rvars, dvars>>)
    \/ (PromoteFail /\ UNCHANGED <<lvars, rvars, dvars>>)
    \/ (Return /\ UNCHANGED <<lvars, rvars, dvars>>)
    \/ (LocateOk /\ UNCHANGED <<uvars, rvars, dvars>>)
    \/ (LocateFail /\ UNCHANGED <<uvars, rvars, dvars>>)
    \/ (ListAmisOk /\ UNCHANGED <<uvars, lvars, dvars>>)
    \/ (ListAmisFail /\ UNCHANGED <<uvars, lvars, dvars>>)

Spec == Init /\ [][Next]_vars

----------------------------------------------------------------------------
(* Driver: the __main__ block, lines 140-171 *)

(* One configured group: its name and its list of single-key filters. *)
FilterLists ==
    { <<>>,
      << <<"env", <<"q","?">>>>, <<"env", <<"q","a">>>> >> }

ConfiguredGroups == [name : AsgNames, filters : FilterLists]
Configurations == UNION {[1..n -> ConfiguredGroups] : n \in 0..MaxConfigured}

(* The provider's answer per group name: one record with a launch          *)
(* template, one record without, or no record.                             *)
Directories ==
    {d \in [AsgNames -> {r \in GroupResponses : Len(r) <= 1}] :
        /\ d["asg-web"] = <<[LaunchTemplate |->
                               [LaunchTemplateId |-> "lt-1", LaunchTemplateName |-> "web-lt"]]>>
        /\ \A i \in DOMAIN d["asg-api"] :
               "LaunchTemplate" \in DOMAIN d["asg-api"][i]
                   => d["asg-api"][i].LaunchTemplate.LaunchTemplateName = "api-lt"}

(* Single-version templates *)
TemplateStates ==
    {t \in [TemplateIds -> [versions : {<<[ImageId |-> a]>> : a \in {"ami-1", "ami-2"}},
                            default : {1}]] :
        t["lt-2"].versions[1]["ImageId"] = "ami-1"}

(* Catalogs whose images carry one tag and alternate between two timestamps *)
DriverCatalogs ==
    {c \in Catalogs :
        \A i \in DOMAIN c :
            /\ c[i].Tags \in {[env |-> <<"q","a","2">>], [Name |-> <<"w","e","b">>]}
            /\ c[i].CreationDate = 1 + (i % 2)}

(* lines 157-159: result = {}; result.update(dictionary) for each entry *)
RECURSIVE MergeTags(_)
MergeTags(fs) ==
    IF fs = <<>> THEN <<>>
    ELSE LET rest == MergeTags(SubSeq(fs, 1, Len(fs) - 1))
             kv == fs[Len(fs)]
         IN [k \in DOMAIN rest \cup {kv[1]} |-> IF k = kv[1] THEN kv[2] ELSE rest[k]]

TemplateDefaultImage(t) == t.versions[t.default]["ImageId"]

(* Variant: line 166 enabled, the call publishing and promoting a version *)
(* when the template's default image is not the resolved one               *)
UpdateTemplates_Call(tm, tid, ami) ==
    IF tid \in DOMAIN tm /\ ami \in ImageIds /\ TemplateDefaultImage(tm[tid]) # ami
    THEN [tm EXCEPT ![tid] =
            [versions |-> Append(tm[tid].versions,
                                 [tm[tid].versions[tm[tid].default] EXCEPT !["ImageId"] = ami]),
             default |-> Len(tm[tid].versions) + 1]]
    ELSE tm
(* lines 165-166: the call of create_launch_template_version is commented  *)
(* out; the iteration ends after the print of line 163.                    *)
UpdateTemplates(tm, tid, ami) == tm

(* lines 153-161: the loop takes the next group and calls the locator *)
LoopNext ==
    /\ dpc = "loop"
    /\ idx <= Len(amis)
    /\ dpc' = "locating"
    /\ lpc' = "start"
    /\ asg_name' = amis[idx].name
    /\ groups' = directory[amis[idx].name]
    /\ launch_template_id' = Unbound /\ l_result' = None /\ l_output' = <<>>
    /\ UNCHANGED <<amis, idx, directory, templates, templates0,
                   d_launch_template_id, d_ami_id, d_output, d_provider_error>>
    /\ UNCHANGED <<uvars, rvars>>

(* line 161 returns or raises; line 162 calls the resolver.  An exception  *)
(* leaving the locator is no BotoCoreError or ClientError, so line 169     *)
(* does not catch it and the run ends with a traceback.                    *)
AfterLocate ==
    /\ dpc = "locating"
    /\ lpc \in {"returned", "failed", "raised"}
    /\ d_provider_error' = (d_provider_error \/ lpc = "failed" \/ l_result = "AttributeError")
    /\ IF lpc = "raised"
       THEN /\ dpc' = "crashed"
            /\ UNCHANGED <<d_launch_template_id, lvars, rvars>>
       ELSE /\ dpc' = "resolving"
            /\ d_launch_template_id' = l_result
            /\ rpc' = "start"
            /\ tags' = MergeTags(amis[idx].filters)
            /\ sorted_amis' = <<>> /\ latest_ami_id' = Unbound /\ ami_name' = Unbound
            /\ r_result' = None /\ r_output' = <<>>
            /\ lpc' = "idle" /\ asg_name' = None /\ groups' = <<>>
            /\ launch_template_id' = Unbound /\ l_result' = None /\ l_output' = <<>>
            /\ UNCHANGED catalog
    /\ UNCHANGED <<amis, idx, directory, templates, templates0, d_ami_id, d_output>>
    /\ UNCHANGED uvars

(* line 162 returns or raises; lines 163-167 *)
AfterResolve ==
    /\ dpc = "resolving"
    /\ rpc \in {"returned", "failed", "raised"}
    /\ d_provider_error' = (d_provider_error \/ rpc = "failed" \/ r_result = "AttributeError")
    /\ IF rpc = "raised"
       THEN /\ dpc' = "crashed"
            /\ UNCHANGED <<d_ami_id, d_output, idx, templates, rvars>>
       ELSE /\ dpc' = "loop"
            /\ d_ami_id' = r_result
            /\ d_output' = Append(d_output, <<d_launch_template_id, r_result>>)
            /\ templates' = UpdateTemplates(templates, d_launch_template_id, r_result)
            /\ idx' = idx + 1
            /\ rpc' = "idle" /\ tags' = <<>>
            /\ sorted_amis' = <<>> /\ latest_ami_id' = Unbound /\ ami_name' = Unbound
            /\ r_result' = None /\ r_output' = <<>>
            /\ UNCHANGED catalog
    /\ UNCHANGED <<amis, directory, templates0, d_launch_template_id>>
    /\ UNCHANGED <<uvars, lvars>>

(* line 168: the loop is exhausted *)
LoopEnd ==
    /\ dpc = "loop"
    /\ idx > Len(amis)
    /\ dpc' = "end"
    /\ UNCHANGED <<amis, idx, directory, templates, templates0,
                   d_launch_template_id, d_ami_id, d_output, d_provider_error>>
    /\ UNCHANGED <<uvars, lvars, rvars>>

(* lines 145-152: the configuration is loaded; provider state is any *)
InitDriver ==
    /\ dpc = "loop"
    /\ amis \in Configurations
    /\ idx = 1
    /\ directory \in Directories
    /\ templates \in TemplateStates
    /\ templates0 = templates
    /\ d_launch_template_id = Unbound /\ d_ami_id = Unbound
    /\ d_output = <<>> /\ d_provider_error = FALSE
    /\ rpc = "idle" /\ tags = <<>> /\ catalog \in DriverCatalogs
    /\ sorted_amis = <<>> /\ latest_ami_id = Unbound /\ ami_name = Unbound
    /\ r_result = None /\ r_output = <<>>
    /\ UpdaterIdle /\ LocatorIdle

NextDriver ==
    \/ LoopNext
    \/ AfterLocate
    \/ AfterResolve
    \/ LoopEnd
    \/ (LocateOk /\ UNCHANGED <<uvars, rvars, dvars>>)
    \/ (LocateFail /\ UNCHANGED <<uvars, rvars, dvars>>)
    \/ (ListAmisOk /\ UNCHANGED <<uvars, lvars, dvars>>)
    \/ (ListAmisFail /\ UNCHANGED <<uvars, lvars, dvars>>)

SpecDriver == InitDriver /\ [][NextDriver]_vars

----------------------------------------------------------------------------
(* Properties of the updater, checked under Spec *)

Failed == pc \in {"failed", "raised"}
NewNumber == Len(versions0) + 1
DefaultImage0 == versions0[default0]["ImageId"]

\* C1: an invocation whose fetch succeeds ends in NO_CHANGE, with no version
\* created and the default pointer untouched, if and only if the candidate
\* image id equals the image id of the template's current default version.
C1_NoChangeIffCandidateIsDefaultImage ==
    (pc \in Terminal /\ Fetched) =>
        /\ (pc = "no_change") <=> (ami_id = DefaultImage0)
        /\ (pc = "no_change") => (versions = versions0 /\ defaultVersion = default0)

\* C2: when the updater reaches DONE, the default pointer is the number the
\* provider gave the version created by this invocation, and the default
\* version's image id is the candidate image id.
C2_DonePromotesCreatedVersion ==
    (pc = "done") =>
        /\ Len(versions) = NewNumber
        /\ defaultVersion = NewNumber
        /\ versions[defaultVersion]["ImageId"] = ami_id

C2_Witness ==
    /\ pc = "done"
    /\ Len(versions0) >= 2
    /\ DefaultImage0 # ami_id

\* C3: a version the updater creates has the settings of the template's
\* current default version in every field but ImageId, which is the candidate;
\* no field is added, removed or changed.
C3_NewVersionClonesDefault ==
    (pc # "idle" /\ Created) =>
        versions[NewNumber] = [versions0[default0] EXCEPT !["ImageId"] = ami_id]

\* C4: after an invocation that ended in DONE, a second invocation with the
\* same candidate, observing the first's effect, ends in NO_CHANGE and creates
\* no further version.
C4_SecondCallIsNoChange ==
    (pc # "idle" /\ Fetched /\ last.outcome = "done" /\ last.ami = ami_id) =>
        (pc = "no_change" /\ versions = versions0)

\* C5: if create succeeds and the promotion then fails, the template holds the
\* new version as a non-default version, the default pointer is what it was
\* before the invocation, and the updater has issued exactly one create and one
\* promotion call (no retry) and removed nothing.
C5_PartialFailureLeavesNonDefaultVersion ==
    (Failed /\ Created) =>
        /\ Len(versions) = NewNumber
        /\ SubSeq(versions, 1, Len(versions0)) = versions0
        /\ defaultVersion = default0
        /\ defaultVersion # NewNumber
        /\ Len(calls) = 3
        /\ calls[1] = Call("describe", "ok")
        /\ calls[2] = Call("create", "ok")
        /\ calls[3].op = "modify" /\ calls[3].res \in ErrorKinds

C5_Witness ==
    /\ Failed /\ Created
    /\ calls[Len(calls)].op = "modify"
    /\ versions[NewNumber]["ImageId"] = ami_id

(* Two failed invocations, this one and the previous one, of which exactly  *)
(* one failed after the create had succeeded.                               *)
PartialVersusClean ==
    /\ Failed
    /\ last.outcome \in {"failed", "raised"}
    /\ Created # last.created

----------------------------------------------------------------------------
(* Properties of the resolver and the locator *)

(* The constraint of the specification: the tag value contains the         *)
(* constraint string as a literal substring.                               *)
Contains(s, v) ==
    \E i \in 0..(Len(s) - Len(v)) : SubSeq(s, i + 1, i + Len(v)) = v

Satisfies(img, t) ==
    \A k \in DOMAIN t : k \in DOMAIN img.Tags /\ Contains(img.Tags[k], t[k])

Matching == {i \in DOMAIN catalog : Satisfies(catalog[i], tags)}

(* The resolver's provider call succeeded. *)
CatalogCallOk ==
    rpc = "returned" \/ (rpc = "raised" /\ r_result = "UnboundLocalError")

(* The locator's provider call succeeded. *)
GroupCallOk ==
    lpc = "returned" \/ (lpc = "raised" /\ l_result \in {"UnboundLocalError", "KeyError"})

\* C7: when at least one image of the catalog satisfies every constraint, the
\* resolver returns the id of an image that satisfies every constraint and
\* whose creation timestamp is >= that of every other matching image.
C7_ReturnsLatestMatchingImage ==
    (CatalogCallOk /\ Matching # {}) =>
        /\ rpc = "returned"
        /\ \E i \in Matching :
             /\ r_result = catalog[i].ImageId
             /\ \A j \in Matching : catalog[i].CreationDate >= catalog[j].CreationDate

\* C8: when the catalog call succeeds, the resolver returns a NotFound result
\* if and only if no image satisfies every constraint; in the no-match case it
\* completes normally and returns no image id.
C8_NotFoundIffNoMatch ==
    CatalogCallOk =>
        /\ (rpc = "returned" /\ r_result \notin ImageIds) <=> (Matching = {})
        /\ (Matching = {}) => rpc = "returned"

\* C9: when the group call succeeds with no record for the group, the locator
\* completes with an error result returned to its caller: it does not raise and
\* returns no template id.
C9_AbsentGroupReturnsError ==
    (GroupCallOk /\ groups = <<>>) =>
        (lpc = "returned" /\ l_result \notin TemplateIds)

\* C10: a provider error of either caught kind, in the locator, the resolver or
\* the updater, is handled by the component, which completes by returning an
\* error result; no exception escapes to the caller.
C10_NoExceptionEscapesOnProviderError ==
    /\ (pc \in Terminal /\ calls # <<>> /\ calls[Len(calls)].res \in ErrorKinds)
         => (pc = "failed" /\ result = None)
    /\ (MsgErrLocate \in Range(l_output)) => (lpc = "failed" /\ l_result = None)
    /\ (MsgErrAmi \in Range(r_output)) => (rpc = "failed" /\ r_result = None)

----------------------------------------------------------------------------
(* Further properties of the resolver *)

(* The images describe_images returns for the resolver's filters *)
Passing == {i \in DOMAIN catalog : PassesFilters(catalog[i], BuildFilters(tags))}
Newest == {i \in Passing :
             \A j \in Passing : catalog[i].CreationDate >= catalog[j].CreationDate}

\* C13: a tag value passes the filter the resolver builds for a constraint if
\* and only if the constraint string occurs in it as a literal, case-sensitive
\* substring, whatever characters the constraint holds.
C13_FilterIsLiteralSubstring ==
    CatalogCallOk =>
        \A i \in DOMAIN catalog, k \in DOMAIN tags :
            k \in DOMAIN catalog[i].Tags =>
                (GlobMatch(FilterValue(tags[k]), catalog[i].Tags[k])
                    <=> Contains(catalog[i].Tags[k], tags[k]))

\* C19: when several returned images share the greatest creation timestamp,
\* the resolver returns the one that comes first in the order the catalog
\* returned them.
C19_TieGoesToFirstReturned ==
    (rpc = "returned") =>
        r_result = catalog[CHOOSE i \in Newest : \A j \in Newest : i <= j].ImageId

C19_Witness ==
    /\ rpc = "returned"
    /\ Cardinality(Newest) >= 2
    /\ r_result = catalog[1].ImageId

----------------------------------------------------------------------------
(* Further properties of the updater *)

\* C14: within one invocation describe is issued exactly once and first;
\* create at most once, only after describe succeeded and the compared images
\* differ; modify at most once, only after create succeeded; no call follows a
\* provider error.
C14_CallsFollowStateMachine ==
    /\ Len(calls) <= 3
    /\ (pc \in Terminal \cup {"create", "promote"}) => Len(calls) >= 1
    /\ \A i \in DOMAIN calls :
         /\ (calls[i].op = "describe") <=> (i = 1)
         /\ (calls[i].op = "create") =>
              /\ i = 2
              /\ versions0[current_version.VersionNumber]["ImageId"] # ami_id
         /\ (calls[i].op = "modify") => (i = 3 /\ calls[2] = Call("create", "ok"))
         /\ (i < Len(calls)) => calls[i].res = "ok"

C14_Witness ==
    /\ pc = "done"
    /\ calls = <<Call("describe", "ok"), Call("create", "ok"), Call("modify", "ok")>>

\* C15: an invocation that fails at describe or at create leaves the template
\* as it was: same versions, same settings, same default pointer.
C15_EarlyFailureLeavesTemplate ==
    (Failed /\ calls[Len(calls)].op \in {"describe", "create"}) =>
        (versions = versions0 /\ defaultVersion = default0)

C15_Witness ==
    /\ Failed
    /\ calls[Len(calls)].op = "create"
    /\ Len(versions0) = 2

\* C16: in every reachable state the default pointer references a version in
\* the template's version list, and exactly one version is marked default.
C16_DefaultPointsToExistingVersion ==
    /\ defaultVersion \in 1..Len(versions)
    /\ Cardinality({n \in 1..Len(versions) :
                      VersionRecord(versions, defaultVersion, n).DefaultVersion}) = 1

C16_Witness ==
    /\ pc = "done"
    /\ last.outcome \in {"failed", "raised"} /\ last.created
    /\ defaultVersion = Len(versions)

\* C17: versions are append-only and immutable: every step keeps each existing
\* version under its number with its settings, and a created version gets a
\* number greater than all existing ones.
C17_VersionsAppendOnly ==
    [][/\ Len(versions') \in {Len(versions), Len(versions) + 1}
       /\ SubSeq(versions', 1, Len(versions)) = versions
       /\ (Len(versions') > Len(versions)) =>
             (new_version_id' = Len(versions') /\ new_version_id' > Len(versions))]_vars

C17_Witness ==
    /\ pc = "promote"
    /\ current_version.LaunchTemplateData["ImageId"] = ami_id
    /\ versions[current_version.VersionNumber]["ImageId"] # ami_id
    /\ new_version_id > Len(versions0)

\* C18: the source version the updater passes to create is the number of the
\* template's current default version.
C18_SourceVersionIsDefault ==
    (pc # "idle" /\ Created) => SourceVersionArg(current_version) = default0

----------------------------------------------------------------------------
(* Properties of the driver, checked under SpecDriver *)

(* lines 116-133 as a function of the catalog and the constraints *)
ResolveResult(cat, t) ==
    LET sorted == SortByCreationDateDesc(DescribeImages(cat, BuildFilters(t)))
    IN IF sorted # <<>> THEN sorted[1].ImageId ELSE "UnboundLocalError"

(* The templates a run over `list` ends with when no provider call raises: *)
(* lines 153-167 for each group in turn, stopping at the first exception.  *)
RECURSIVE Replay(_, _)
Replay(list, tm) ==
    IF list = <<>> THEN tm
    ELSE LET tid == LocateResult(directory[Head(list).name])
             ami == ResolveResult(catalog, MergeTags(Head(list).filters))
         IN IF tid \notin TemplateIds \/ ami \notin ImageIds THEN tm
            ELSE Replay(Tail(list), UpdateTemplates(tm, tid, ami))

Reorderings(list) ==
    {[i \in DOMAIN list |-> list[p[i]]] :
        p \in {q \in [DOMAIN list -> DOMAIN list] :
                 \A i, j \in DOMAIN list : i # j => q[i] # q[j]}}

\* C11: a failure while processing one group does not stop the batch: the run
\* ends at the end of main having attempted every configured group.
C11_BatchRunsToItsEnd ==
    (dpc \in {"end", "crashed"}) =>
        (dpc = "end" /\ idx = Len(amis) + 1 /\ Len(d_output) = Len(amis))

\* C12: after an iteration in which the locator yielded a template id and the
\* resolver an image id, the updater has been invoked with them: the
\* template's default version carries the resolved image.
C12_IterationUpdatesTemplate ==
    (dpc \in {"loop", "end"} /\ idx > 1
        /\ d_launch_template_id \in TemplateIds /\ d_ami_id \in ImageIds) =>
        TemplateDefaultImage(templates[d_launch_template_id]) = d_ami_id

====
